---- MODULE Spec2Model ----
(***************************************************************************)
(* Model of tools/make_products.py: the spreadsheet-to-catalog converter.  *)
(* Text is a sequence of one-character strings, so that trimming, case     *)
(* folding, the slug regexes and the "-n" id suffix are computed character *)
(* by character as the Python code computes them.                          *)
(***************************************************************************)
EXTENDS Integers, Sequences, FiniteSets, TLC

VARIABLES
    fileExists,  \* XLSX_PATH.exists()
    columns,     \* df.columns: the header labels, in column order
    rows,        \* the data rows of df, each a sequence of cells
    outFile,     \* content of public/products.json (NoFile when absent)
    pc,          \* position of the running invocation of main()
    colmap,      \* main's colmap: logical field -> column index
    missing,     \* main's list of unresolved logical fields
    idx,         \* number of rows the for loop has consumed in this run
    items,       \* main's items list
    seen_ids,    \* main's seen_ids set
    stdout,      \* kind of the last message printed by this run
    exitCode,    \* exit status of this run (Running until it ends)
    runs,        \* number of invocations started so far
    prevOut,     \* history: file content left by the previous successful run
    startOut,    \* history: file content when this invocation started
    arg,         \* argument of the pure function under test
    ret,         \* its result
    ret2,        \* result of applying slugify to its own result
    fpc          \* position of the pure-function harness

vars == <<fileExists, columns, rows, outFile, pc, colmap, missing, idx, items,
          seen_ids, stdout, exitCode, runs, prevOut, startOut, arg, ret, ret2,
          fpc>>

mainVars == <<fileExists, columns, rows, outFile, pc, colmap, missing, idx,
              items, seen_ids, stdout, exitCode, runs, prevOut, startOut>>

funVars == <<arg, ret, ret2, fpc>>

----------------------------------------------------------------------------
(* Bounds of the model *)

MaxRows == 3
MaxRuns == 2
MaxNameLen == 4
MaxSkuLen == 3
MaxPad == 1

----------------------------------------------------------------------------
(* Characters and Python's str primitives *)

LowerSeq == <<"a","b","c","d","e","f","g","h","i","j","k","l","m",
              "n","o","p","q","r","s","t","u","v","w","x","y","z">>

UpperSeq == <<"A","B","C","D","E","F","G","H","I","J","K","L","M",
              "N","O","P","Q","R","S","T","U","V","W","X","Y","Z">>

Digit == <<"0","1","2","3","4","5","6","7","8","9">>

Range(f) == {f[i] : i \in DOMAIN f}

Whitespace == {" ", "\t", "\n"}

Punct == {"-", "+", ",", ".", "?", "&", "_", ":", "/"}

Alnum == Range(LowerSeq) \cup Range(Digit)

Char == Alnum \cup Range(UpperSeq) \cup Whitespace \cup Punct

\* the lowercase of every cased character
LowerMap == [c \in Range(UpperSeq) |->
                LowerSeq[CHOOSE i \in DOMAIN UpperSeq : UpperSeq[i] = c]]

\* str.lower() on one character
ToLower(c) == IF c \in DOMAIN LowerMap THEN LowerMap[c] ELSE c

\* str.lower()
Lower(s) == [i \in 1..Len(s) |-> ToLower(s[i])]

RECURSIVE LStrip(_, _)
LStrip(s, C) ==
    IF s # <<>> /\ Head(s) \in C THEN LStrip(Tail(s), C) ELSE s

RECURSIVE RStrip(_, _)
RStrip(s, C) ==
    IF s # <<>> /\ s[Len(s)] \in C THEN RStrip(SubSeq(s, 1, Len(s) - 1), C) ELSE s

\* str.strip(chars); str.strip() is StripChars(s, Whitespace)
StripChars(s, C) == RStrip(LStrip(s, C), C)

Strip(s) == StripChars(s, Whitespace)

\* re.sub(r"[M]+", "-", s): every maximal run of characters of M becomes one hyphen
RECURSIVE ReSubRuns(_, _)
ReSubRuns(M, s) ==
    IF s = <<>> THEN <<>>
    ELSE IF Head(s) \in M
         THEN <<"-">> \o ReSubRuns(M, LStrip(Tail(s), M))
         ELSE <<Head(s)>> \o ReSubRuns(M, Tail(s))

\* str.replace(c, "")
RECURSIVE Remove(_, _)
Remove(s, c) ==
    IF s = <<>> THEN <<>>
    ELSE IF Head(s) = c THEN Remove(Tail(s), c)
         ELSE <<Head(s)>> \o Remove(Tail(s), c)

\* str.startswith(p)
StartsWith(s, p) == Len(s) >= Len(p) /\ SubSeq(s, 1, Len(p)) = p

\* str(n) of a non-negative int
RECURSIVE NatStr(_)
NatStr(n) ==
    IF n < 10 THEN <<Digit[n + 1]>>
    ELSE NatStr(n \div 10) \o <<Digit[(n % 10) + 1]>>

\* str(n) of an int
IntStr(n) == IF n < 0 THEN <<"-">> \o NatStr(0 - n) ELSE NatStr(n)

----------------------------------------------------------------------------
(* slugify *)

item == <<"i","t","e","m">>

\* the final .strip("-") is left out
slugify_unstripped(s) ==
    LET s1 == Lower(Strip(s))
        s2 == ReSubRuns(Char \ Alnum, s1)
        s3 == ReSubRuns({"-"}, s2)
    IN  IF s3 = <<>> THEN item ELSE s3

slugify(s) ==
    LET s1 == Lower(Strip(s))
        s2 == ReSubRuns(Char \ Alnum, s1)
        s3 == StripChars(ReSubRuns({"-"}, s2), {"-"})
    IN  IF s3 = <<>> THEN item ELSE s3

----------------------------------------------------------------------------
(* Spreadsheet cells and Python's str() of them *)

\* a cell holding text
TextCell(s) == [k |-> "str", s |-> s, n |-> 0]

\* an empty cell: pandas yields float nan
NaN == [k |-> "nan", s |-> <<>>, n |-> 0]

\* Python None
None == [k |-> "none", s |-> <<>>, n |-> 0]

\* an integer cell
IntCell(n) == [k |-> "int", s |-> <<>>, n |-> n]

\* a float cell with one decimal digit; n is the value in tenths
FloatCell(n) == [k |-> "float", s |-> <<>>, n |-> n]

Abs(n) == IF n < 0 THEN 0 - n ELSE n

\* str(v)
PyStr(v) ==
    CASE v.k = "str" -> v.s
      [] v.k = "nan" -> <<"n","a","n">>
      [] v.k = "none" -> <<"N","o","n","e">>
      [] v.k = "int" -> IntStr(v.n)
      [] v.k = "float" ->
            (IF v.n < 0 THEN <<"-">> ELSE <<>>)
            \o NatStr(Abs(v.n) \div 10) \o <<".">> \o NatStr(Abs(v.n) % 10)

----------------------------------------------------------------------------
(* normalize_sku *)

other == <<"o","t","h","e","r">>

\* the kept value is lowercased
normalize_sku_lowered(v) ==
    IF v = None THEN <<>>
    ELSE LET s == Strip(PyStr(v))
         IN  IF s = <<"1">> \/ Lower(s) = other THEN Lower(s) ELSE <<>>

normalize_sku(v) ==
    IF v = None THEN <<>>
    ELSE LET s == Strip(PyStr(v))
         IN  IF s = <<"1">> \/ Lower(s) = other THEN s ELSE <<>>

----------------------------------------------------------------------------
(* to_int_price: float(), round(), int() *)

DigitVal(c) == (CHOOSE i \in DOMAIN Digit : Digit[i] = c) - 1

RECURSIVE DigitsVal(_)
DigitsVal(d) ==
    IF d = <<>> THEN 0
    ELSE 10 * DigitsVal(SubSeq(d, 1, Len(d) - 1)) + DigitVal(d[Len(d)])

RECURSIVE Pow10(_)
Pow10(k) == IF k = 0 THEN 1 ELSE 10 * Pow10(k - 1)

\* digit (["_"] digit)* : the digit groups float() accepts
DigitGroup(g) ==
    /\ g # <<>>
    /\ \A i \in 1..Len(g) : g[i] \in Range(Digit) \cup {"_"}
    /\ g[1] # "_" /\ g[Len(g)] # "_"
    /\ \A i \in 1..(Len(g) - 1) : ~(g[i] = "_" /\ g[i + 1] = "_")

\* index of the first c in s, 0 when there is none
FirstIdx(s, c) ==
    IF \E i \in 1..Len(s) : s[i] = c
    THEN CHOOSE i \in 1..Len(s) : s[i] = c /\ \A j \in 1..(i - 1) : s[j] # c
    ELSE 0

NotFloat == [ok |-> FALSE, fin |-> FALSE, neg |-> FALSE, num |-> 0, den |-> 1]

NonFinite == [ok |-> TRUE, fin |-> FALSE, neg |-> FALSE, num |-> 0, den |-> 1]

\* float(t): ok is FALSE where float() raises ValueError; a finite value is
\* (-1)^neg * num / den.  Texts in exponent notation are outside the modelled
\* inputs when the exponent would not fit the checker's integers.
ParseFloat(t) ==
    LET u    == Strip(t)
        sgn  == u # <<>> /\ Head(u) \in {"+", "-"}
        neg  == u # <<>> /\ Head(u) = "-"
        body == Lower(IF sgn THEN Tail(u) ELSE u)
        e    == FirstIdx(body, "e")
        word == body \in {<<"n","a","n">>, <<"i","n","f">>,
                          <<"i","n","f","i","n","i","t","y">>}
        mant == IF e = 0 THEN body ELSE SubSeq(body, 1, e - 1)
        ex   == IF e = 0 THEN <<>> ELSE SubSeq(body, e + 1, Len(body))
        exs  == ex # <<>> /\ Head(ex) \in {"+", "-"}
        exd  == IF exs THEN Tail(ex) ELSE ex
        dot  == FirstIdx(mant, ".")
        ip   == IF dot = 0 THEN mant ELSE SubSeq(mant, 1, dot - 1)
        fp   == IF dot = 0 THEN <<>> ELSE SubSeq(mant, dot + 1, Len(mant))
        good == /\ ip = <<>> \/ DigitGroup(ip)
                /\ fp = <<>> \/ DigitGroup(fp)
                /\ ip # <<>> \/ fp # <<>>
                /\ e = 0 \/ DigitGroup(exd)
        fd   == Remove(fp, "_")
        n    == DigitsVal(Remove(ip, "_") \o fd)
        ev   == IF e = 0 THEN 0
                ELSE (IF exs /\ Head(ex) = "-" THEN -1 ELSE 1) * DigitsVal(Remove(exd, "_"))
        sh   == ev - Len(fd)
    IN  IF word THEN NonFinite
        ELSE IF ~good THEN NotFloat
        ELSE [ok |-> TRUE, fin |-> TRUE, neg |-> neg,
              num |-> IF sh >= 0 THEN n * Pow10(sh) ELSE n,
              den |-> IF sh >= 0 THEN 1 ELSE Pow10(0 - sh)]

\* round(): to the nearest integer, ties to the even one
RoundHalfEven(num, den) ==
    LET q == num \div den
        r == num % den
    IN  IF 2 * r < den THEN q
        ELSE IF 2 * r > den THEN q + 1
        ELSE IF q % 2 = 0 THEN q ELSE q + 1

\* round() raises on nan and inf, float() on malformed text: both give 0
to_int_price(v) ==
    LET p == ParseFloat(Strip(Remove(PyStr(v), ",")))
    IN  IF ~p.ok \/ ~p.fin THEN 0
        ELSE (IF p.neg THEN -1 ELSE 1) * RoundHalfEven(p.num, p.den)

----------------------------------------------------------------------------
(* The input table *)

SeqsUpTo(S, n) == UNION {[1..k -> S] : k \in 0..n}

\* Product | Units | Retail : the expected export
ColsPlain == <<TextCell(<<"P","r","o","d","u","c","t">>), TextCell(<<"U","n","i","t","s">>), TextCell(<<"R","e","t","a","i","l">>)>>

RowsPlain ==
    { <<TextCell(<<"A">>), TextCell(<<"1">>), TextCell(<<"5">>)>>,
      <<TextCell(<<" ","a"," ">>), TextCell(<<" ","O","t","h","e","r"," ">>), TextCell(<<"1",",","2","0","0",".","4","0">>)>>,
      <<TextCell(<<"A"," ","2">>), IntCell(5), FloatCell(25)>>,
      <<TextCell(<<"?">>), NaN, IntCell(7)>>,
      <<TextCell(<<" "," ">>), TextCell(<<"1">>), TextCell(<<"5">>)>>,
      <<TextCell(<<"T","o","t","a","l">>), NaN, TextCell(<<"9","9","9","9">>)>>,
      <<TextCell(<<"A">>), TextCell(<<"1">>), TextCell(<<"x">>)>>,
      <<TextCell(<<"A">>), TextCell(<<"1">>), FloatCell(5)>> }

\* the same fields under other accepted labels, in another column order
ColsVariant == <<TextCell(<<"R","e","t","a","i","l"," ","P","r","i","c","e">>), TextCell(<<" ","N","A","M","E"," ">>), TextCell(<<"S","K","U">>)>>

RowsVariant ==
    { <<TextCell(<<"5">>), TextCell(<<"I","t","e","m">>), TextCell(<<"1">>)>>,
      <<TextCell(<<"1","_","0">>), TextCell(<<"?">>), TextCell(<<"O","T","H","E","R">>)>>,
      <<IntCell(3), NaN, NaN>>,
      <<TextCell(<<"i","n","f">>), TextCell(<<"A">>), TextCell(<<"1">>)>>,
      <<NaN, TextCell(<<"A">>), TextCell(<<"o","t","h","e","r">>)>>,
      <<TextCell(<<"-","3">>), TextCell(<<"A"," ","2">>), TextCell(<<"1">>)>>,
      <<TextCell(<<"7">>), TextCell(<<"T","O","T","A","L","S",":"," ","x">>), TextCell(<<"1">>)>> }

\* two headers for each logical field
ColsDouble == <<TextCell(<<"P","r","o","d","u","c","t">>), TextCell(<<"U","n","i","t","s">>), TextCell(<<"R","e","t","a","i","l">>),
                TextCell(<<"N","a","m","e">>), TextCell(<<"S","K","U">>), TextCell(<<"P","r","i","c","e">>)>>

RowsDouble ==
    { <<TextCell(<<"A">>), TextCell(<<"1">>), TextCell(<<"5">>),
        TextCell(<<"B">>), TextCell(<<"O","t","h","e","r">>), TextCell(<<"7">>)>>,
      <<TextCell(<<"A">>), TextCell(<<"1">>), TextCell(<<"5">>),
        TextCell(<<"T","o","t","a","l">>), TextCell(<<"1">>), TextCell(<<"0">>)>>,
      <<TextCell(<<"T","o","t","a","l">>), TextCell(<<"1">>), TextCell(<<"0">>),
        TextCell(<<"B">>), TextCell(<<"1">>), TextCell(<<"5">>)>> }

\* no header matches any logical field
ColsNone == <<TextCell(<<"I","t","e","m">>), TextCell(<<"C","o","s","t">>)>>

RowsNone == { <<TextCell(<<"A">>), TextCell(<<"5">>)>>, <<TextCell(<<"B">>), IntCell(7)>> }

\* name and sku resolve, price does not
ColsNoPrice == <<TextCell(<<"P","r","o","d","u","c","t">>), TextCell(<<"U","n","i","t","s">>), IntCell(2025)>>

RowsNoPrice == { <<TextCell(<<"A">>), TextCell(<<"1">>), TextCell(<<"5">>)>> }

Layouts ==
    { [cols |-> ColsPlain, pool |-> RowsPlain],
      [cols |-> ColsVariant, pool |-> RowsVariant],
      [cols |-> ColsDouble, pool |-> RowsDouble],
      [cols |-> ColsNone, pool |-> RowsNone],
      [cols |-> ColsNoPrice, pool |-> RowsNoPrice] }

\* the tables pd.read_excel can return
Tables ==
    UNION { {[cols |-> L.cols, rows |-> r] : r \in SeqsUpTo(L.pool, MaxRows)} :
            L \in Layouts }

----------------------------------------------------------------------------
(* The output file *)

NoFile == [exists |-> FALSE, data |-> <<>>]

\* a products.json left by some earlier, unrelated run
StaleFile ==
    [exists |-> TRUE,
     data |-> <<[id |-> <<"o","l","d">>, name |-> <<"O","l","d">>, sku |-> <<>>, price |-> 1]>>]

----------------------------------------------------------------------------
(* main: column resolution *)

NameHeaders == {<<"p","r","o","d","u","c","t">>, <<"p","r","o","d","u","c","t"," ","n","a","m","e">>, <<"n","a","m","e">>}

SkuHeaders == {<<"u","n","i","t","s">>, <<"s","k","u">>}

PriceHeaders == {<<"r","e","t","a","i","l">>, <<"r","e","t","a","i","l"," ","p","r","i","c","e">>, <<"p","r","i","c","e">>}

Fields == <<"name", "sku", "price">>

\* colmap[k] = v
Put(m, k, v) == [x \in (DOMAIN m) \cup {k} |-> IF x = k THEN v ELSE m[x]]

\* the for loop over df.columns, from column i on
RECURSIVE BuildColmap(_, _, _)
BuildColmap(cols, i, m) ==
    IF i > Len(cols) THEN m
    ELSE LET c == Lower(Strip(PyStr(cols[i])))
         IN  BuildColmap(cols, i + 1,
                 IF c \in NameHeaders THEN Put(m, "name", i)
                 ELSE IF c \in SkuHeaders THEN Put(m, "sku", i)
                 ELSE IF c \in PriceHeaders THEN Put(m, "price", i)
                 ELSE m)

\* only the name column is required
MissingNameOnly(m) == SelectSeq(<<"name">>, LAMBDA k : k \notin DOMAIN m)

MissingFields(m) == SelectSeq(Fields, LAMBDA k : k \notin DOMAIN m)

----------------------------------------------------------------------------
(* main: one row *)

total == <<"t","o","t","a","l">>

RowName(row, m) == Strip(PyStr(row[m["name"]]))

\* the name is tested without .lower()
NameSkippedCaseSensitive(name) == name = <<>> \/ StartsWith(name, total)

NameSkipped(name) == name = <<>> \/ StartsWith(Lower(name), total)

RowSku(row, m) == normalize_sku(row[m["sku"]])

RowPrice(row, m) == to_int_price(row[m["price"]])

\* f"{base_id}-{n}"
Suffixed(base_id, n) == base_id \o <<"-">> \o IntStr(n)

\* an if in place of the while: one suffix is tried, whether taken or not
ProbeOnce(base_id, n, seen) == Suffixed(base_id, n)

\* the while loop, entered with uid = base_id-n already known to be taken or not
RECURSIVE Probe(_, _, _)
Probe(base_id, n, seen) ==
    IF Suffixed(base_id, n) \in seen
    THEN Probe(base_id, n + 1, seen)
    ELSE Suffixed(base_id, n)

\* the suffix counter starts at 3 in place of 2
AssignIdFromThree(base_id, seen) ==
    IF base_id \in seen THEN Probe(base_id, 3, seen) ELSE base_id

\* uid after the while loop
AssignId(base_id, seen) ==
    IF base_id \in seen THEN Probe(base_id, 2, seen) ELSE base_id

----------------------------------------------------------------------------
(* main as a state machine; one invocation after another *)

NoColmap == << >>

Init ==
    /\ \/ /\ fileExists = FALSE
          /\ columns = <<>>
          /\ rows = <<>>
       \/ /\ fileExists = TRUE
          /\ \E t \in Tables : columns = t.cols /\ rows = t.rows
    /\ outFile \in {NoFile, StaleFile}
    /\ startOut = outFile
    /\ pc = "start"
    /\ colmap = NoColmap
    /\ missing = <<>>
    /\ idx = 0
    /\ items = <<>>
    /\ seen_ids = {}
    /\ stdout = "none"
    /\ exitCode = -1
    /\ runs = 1
    /\ prevOut = NoFile
    /\ arg = <<>> /\ ret = <<>> /\ ret2 = <<>> /\ fpc = "off"

\* if not XLSX_PATH.exists(): ... sys.exit(1); else df = pd.read_excel(...)
CheckInput ==
    /\ pc = "start"
    /\ IF fileExists
       THEN /\ pc' = "resolve"
            /\ UNCHANGED <<stdout, exitCode>>
       ELSE /\ pc' = "exited"
            /\ stdout' = "not found"
            /\ exitCode' = 1
    /\ UNCHANGED <<fileExists, columns, rows, outFile, startOut, colmap, missing,
                   idx, items, seen_ids, runs, prevOut, funVars>>

\* colmap, missing, and either sys.exit(1) or items = [], seen_ids = set()
ResolveColumns ==
    /\ pc = "resolve"
    /\ colmap' = BuildColmap(columns, 1, NoColmap)
    /\ missing' = MissingFields(colmap')
    /\ IF missing' # <<>>
       THEN /\ pc' = "exited"
            /\ stdout' = "missing columns"
            /\ exitCode' = 1
            /\ UNCHANGED <<items, seen_ids>>
       ELSE /\ pc' = "loop"
            /\ items' = <<>>
            /\ seen_ids' = {}
            /\ UNCHANGED <<stdout, exitCode>>
    /\ UNCHANGED <<fileExists, columns, rows, outFile, startOut, idx, runs,
                   prevOut, funVars>>

\* if price < 0: continue
PriceSkippedIfNegative(price) == price < 0

\* if price <= 0: continue
PriceSkipped(price) == price <= 0

\* items.insert(0, rec)
PrependItem(list, rec) == <<rec>> \o list

\* items.append(rec)
AppendItem(list, rec) == Append(list, rec)

\* one iteration of: for _, row in df.iterrows()
ProcessRow ==
    /\ pc = "loop"
    /\ idx < Len(rows)
    /\ idx' = idx + 1
    /\ LET row   == rows[idx + 1]
           name  == RowName(row, colmap)
           sku   == RowSku(row, colmap)
           price == RowPrice(row, colmap)
           uid   == AssignId(slugify(name), seen_ids)
       IN  IF NameSkipped(name) \/ PriceSkipped(price)
           THEN UNCHANGED <<items, seen_ids>>
           ELSE /\ seen_ids' = seen_ids \cup {uid}
                /\ items' = AppendItem(items, [id |-> uid, name |-> name,
                                               sku |-> sku, price |-> price])
    /\ UNCHANGED <<fileExists, columns, rows, outFile, startOut, pc, colmap,
                   missing, stdout, exitCode, runs, prevOut, funVars>>

\* the file is opened for appending: the new records follow the old ones
AppendText(old, data) == [exists |-> TRUE, data |-> old.data \o data]

\* Path.write_text(data): the file holds data and nothing else
WriteText(old, data) == [exists |-> TRUE, data |-> data]

\* out_path.write_text(json.dumps(items, ...)); print; fall off the end of main
WriteOutput ==
    /\ pc = "loop"
    /\ idx = Len(rows)
    /\ outFile' = WriteText(outFile, items)
    /\ stdout' = "wrote"
    /\ exitCode' = 0
    /\ pc' = "done"
    /\ UNCHANGED <<fileExists, columns, rows, startOut, colmap, missing, idx,
                   items, seen_ids, runs, prevOut, funVars>>

\* the tool is invoked again on the same input: a new process, with fresh locals
Rerun ==
    /\ pc \in {"done", "exited"}
    /\ runs < MaxRuns
    /\ runs' = runs + 1
    /\ prevOut' = IF pc = "done" THEN outFile ELSE prevOut
    /\ startOut' = outFile
    /\ pc' = "start"
    /\ colmap' = NoColmap
    /\ missing' = <<>>
    /\ idx' = 0
    /\ items' = <<>>
    /\ seen_ids' = {}
    /\ stdout' = "none"
    /\ exitCode' = -1
    /\ UNCHANGED <<fileExists, columns, rows, outFile, funVars>>

Next == CheckInput \/ ResolveColumns \/ ProcessRow \/ WriteOutput \/ Rerun

Spec == Init /\ [][Next]_vars

----------------------------------------------------------------------------
(* slugify and normalize_sku applied on their own to bounded inputs *)

\* main is not running in these specifications
MainIdle ==
    /\ fileExists = FALSE /\ columns = <<>> /\ rows = <<>>
    /\ outFile = NoFile /\ startOut = NoFile /\ prevOut = NoFile
    /\ pc = "idle" /\ colmap = NoColmap /\ missing = <<>> /\ idx = 0
    /\ items = <<>> /\ seen_ids = {} /\ stdout = "none" /\ exitCode = -1
    /\ runs = 0

SlugChars == {"a", "B", "2", "-", " ", "?"}

CocaCola == <<"C","o","c","a","-","C","o","l","a"," ","5","0","0","m","l">>

SlugInputs ==
    SeqsUpTo(SlugChars, MaxNameLen)
    \cup {CocaCola, <<"?","?","?">>, <<"I","t","e","m">>,
          <<" "," ","-","-","T","e","a","_","&","_","M","i","l","k","/","1","k","g","\t">>,
          <<"A",".",".","b"," ","2">>}

InitSlug ==
    /\ MainIdle
    /\ arg \in SlugInputs
    /\ ret = <<>> /\ ret2 = <<>>
    /\ fpc = "call"

\* base_id = slugify(name)
CallSlugify ==
    /\ fpc = "call"
    /\ ret' = slugify(arg)
    /\ fpc' = "again"
    /\ UNCHANGED <<mainVars, arg, ret2>>

\* slugify applied to a slug
CallSlugifyAgain ==
    /\ fpc = "again"
    /\ ret2' = slugify(ret)
    /\ fpc' = "end"
    /\ UNCHANGED <<mainVars, arg, ret>>

NextSlug == CallSlugify \/ CallSlugifyAgain

SpecSlug == InitSlug /\ [][NextSlug]_vars

ToUpper(c) ==
    IF \E i \in DOMAIN LowerSeq : LowerSeq[i] = c
    THEN UpperSeq[CHOOSE i \in DOMAIN LowerSeq : LowerSeq[i] = c]
    ELSE c

Pad(k) == [i \in 1..k |-> " "]

\* every casing of "other"
OtherCasings ==
    { [i \in 1..Len(other) |-> IF up[i] THEN ToUpper(other[i]) ELSE other[i]] :
      up \in [1..Len(other) -> BOOLEAN] }

SkuChars == {"1", "5", " ", "o"}

SkuInputs ==
    {None, NaN, IntCell(1), IntCell(5), IntCell(11), FloatCell(10)}
    \cup {TextCell(s) : s \in SeqsUpTo(SkuChars, MaxSkuLen)}
    \cup {TextCell(Pad(l) \o w \o Pad(r)) :
              l \in 0..MaxPad, r \in 0..MaxPad, w \in OtherCasings}
    \cup {TextCell(<<"o","t","h","e","r","s">>), TextCell(<<"o","t","h","e">>), TextCell(<<"o"," ","t","h","e","r">>),
          TextCell(<<"\t","1","\n">>), TextCell(<<"1",".","0">>),
          TextCell(<<"N","o","n","e">>)}

InitSku ==
    /\ MainIdle
    /\ arg \in SkuInputs
    /\ ret = <<>> /\ ret2 = <<>>
    /\ fpc = "call"

\* sku = normalize_sku(v)
CallNormalizeSku ==
    /\ fpc = "call"
    /\ ret' = normalize_sku(arg)
    /\ fpc' = "end"
    /\ UNCHANGED <<mainVars, arg, ret2>>

NextSku == CallNormalizeSku

SpecSku == InitSku /\ [][NextSku]_vars

----------------------------------------------------------------------------
(* Properties of the id assignment *)

Ids(recs) == {recs[i].id : i \in 1..Len(recs)}

DistinctIds(recs) ==
    \A i, j \in 1..Len(recs) : i # j => recs[i].id # recs[j].id

BaseOf(rec) == slugify(rec.name)

\* C1: after every processed row the ids of the records accumulated in items
\* are pairwise distinct, and so are the ids of the records written to the
\* output file, also when a name's slug already ends in -2, -3, ...
C1_UniqueIds ==
    /\ DistinctIds(items)
    /\ Cardinality(Ids(items)) = Len(items)
    /\ pc = "done" => DistinctIds(outFile.data)

\* a finished run in which two records share a base slug and a later record's
\* own slug is that base followed by -2
C1_Witness ==
    /\ pc = "done"
    /\ \E i, j, k \in 1..Len(outFile.data) :
          /\ i < j /\ j < k
          /\ BaseOf(items[i]) = BaseOf(items[j])
          /\ BaseOf(items[k]) = Suffixed(BaseOf(items[i]), 2)
          /\ items[j].id = BaseOf(items[k])
          /\ items[k].id = Suffixed(BaseOf(items[k]), 2)

\* the records before position k, and how many of them have the base slug of k
Earlier(k) == {items[i].id : i \in 1..(k - 1)}

Rank(k) == Cardinality({i \in 1..k : BaseOf(items[i]) = BaseOf(items[k])})

\* base for the first record of a base slug, base-r for the r-th
RankId(k) ==
    IF Rank(k) = 1 THEN BaseOf(items[k]) ELSE Suffixed(BaseOf(items[k]), Rank(k))

\* the ids a record of base slug b may be given: b, b-2, b-3, ...
Candidates(b) == {b} \cup {Suffixed(b, n) : n \in 2..(Len(items) + 1)}

\* no record of another base slug holds one of the ids meant for the base of k
Undisturbed(k) ==
    \A i \in 1..Len(items) :
        BaseOf(items[i]) # BaseOf(items[k]) => items[i].id \notin Candidates(BaseOf(items[k]))

\* C2 as stated: the records of one base slug get base, base-2, ..., base-N
\* in order of appearance, whatever the other records are
C2_AsStated ==
    /\ \A k \in 1..Len(items) : items[k].id = RankId(k)
    /\ Cardinality(Ids(items)) = Len(items)

\* C2 amended: every record gets the first of base, base-2, base-3, ... that
\* no earlier record holds; the records of one base slug get base, base-2, ...,
\* base-N in order when no record of another base slug holds one of these
\* ids; the output ids of N records form a set of size N
C2_FirstFreeSuffix ==
    /\ \A k \in 1..Len(items) :
          LET b == BaseOf(items[k])
          IN  /\ b \notin Earlier(k) => items[k].id = b
              /\ b \in Earlier(k) =>
                    \E n \in 2..(k + 1) :
                        /\ items[k].id = Suffixed(b, n)
                        /\ Suffixed(b, n) \notin Earlier(k)
                        /\ \A m \in 2..(n - 1) : Suffixed(b, m) \in Earlier(k)
              /\ Undisturbed(k) => items[k].id = RankId(k)
    /\ Cardinality(Ids(items)) = Len(items)

\* three records of one base slug, given base, base-2 and base-3
C2_Witness ==
    /\ pc = "done"
    /\ Len(items) = 3
    /\ BaseOf(items[1]) = BaseOf(items[2]) /\ BaseOf(items[2]) = BaseOf(items[3])
    /\ items[1].name # items[2].name
    /\ items[1].id = BaseOf(items[1])
    /\ items[2].id = Suffixed(BaseOf(items[1]), 2)
    /\ items[3].id = Suffixed(BaseOf(items[1]), 3)

----------------------------------------------------------------------------
(* Properties of the row filter *)

\* the row yields a record: its name is kept and its price is positive
Kept(row) ==
    /\ RowName(row, colmap) # <<>>
    /\ ~StartsWith(Lower(RowName(row, colmap)), total)
    /\ RowPrice(row, colmap) > 0

NamePrice(recs) == [i \in 1..Len(recs) |-> <<recs[i].name, recs[i].price>>]

\* the (name, price) of the rows among the first n that yield a record
Survivors(n) ==
    LET kept == SelectSeq(SubSeq(rows, 1, n), Kept)
    IN  [i \in 1..Len(kept) |-> <<RowName(kept[i], colmap), RowPrice(kept[i], colmap)>>]

\* C3: the records are exactly the rows with a kept name and a positive
\* parsed price, once each and in row order, after every processed row and in
\* the output file
C3_RowsSurviveInOrder ==
    /\ pc \in {"loop", "done"} => NamePrice(items) = Survivors(idx)
    /\ pc = "done" => NamePrice(outFile.data) = Survivors(Len(rows))

\* a finished run over three rows whose middle row was excluded
C3_Witness ==
    /\ pc = "done"
    /\ Len(rows) = 3
    /\ Kept(rows[1]) /\ ~Kept(rows[2]) /\ Kept(rows[3])
    /\ RowName(rows[1], colmap) # RowName(rows[3], colmap)
    /\ Len(outFile.data) = 2

----------------------------------------------------------------------------
(* Properties of the structural checks and the column resolver *)

HeadersOf(k) ==
    CASE k = "name" -> NameHeaders
      [] k = "sku" -> SkuHeaders
      [] k = "price" -> PriceHeaders

\* the columns whose label, trimmed and lowercased, is a synonym of field k
Matching(k) ==
    {i \in 1..Len(columns) : Lower(Strip(PyStr(columns[i]))) \in HeadersOf(k)}

Required == {"name", "sku", "price"}

\* the labels of the table, trimmed and lowercased
Labels == {Lower(Strip(PyStr(columns[i]))) : i \in 1..Len(columns)}

StructuralError ==
    \/ ~fileExists
    \/ \E k \in Required : Labels \cap HeadersOf(k) = {}

\* C4: with a missing input file or an unresolved required column the run
\* never reaches the row loop, processes no row, leaves the output file as it
\* found it and ends with exit status 1; an exit status 1 has no other cause;
\* the headers Item, Cost end in the missing-column error naming all three
\* fields, with no record
C4_StructuralErrorsAbortEarly ==
    /\ IF StructuralError
       THEN /\ pc \notin {"loop", "done"}
            /\ idx = 0 /\ items = <<>> /\ seen_ids = {}
            /\ outFile = startOut
            /\ pc = "exited" =>
                  /\ exitCode = 1
                  /\ stdout = (IF fileExists THEN "missing columns" ELSE "not found")
       ELSE /\ pc # "exited"
            /\ exitCode # 1
            /\ pc = "done" => exitCode = 0
    /\ (pc = "exited" /\ columns = ColsNone) =>
          /\ stdout = "missing columns"
          /\ missing = Fields
          /\ items = <<>>

\* the headers Item, Cost over a non-empty table and an existing output file:
\* the run has ended with the missing-column error
C4_Witness ==
    /\ pc = "exited"
    /\ columns = ColsNone
    /\ rows # <<>>
    /\ exitCode = 1
    /\ outFile = StaleFile

Min(S) == CHOOSE x \in S : \A y \in S : x <= y

\* C5: once the columns are resolved, each logical field is mapped to the
\* first column, in column order, whose header matches the field, and the
\* records carry the names read from that column
C5_FirstMatchWins ==
    pc \in {"loop", "done"} =>
        /\ \A k \in Required : colmap[k] = Min(Matching(k))
        /\ \A i \in 1..Len(items) :
              \E r \in 1..idx :
                  items[i].name = Strip(PyStr(rows[r][Min(Matching("name"))]))

----------------------------------------------------------------------------
(* Properties of the emitted records *)

\* the price cell of the row the loop is about to read
NextPriceText == Strip(Remove(PyStr(rows[idx + 1][colmap["price"]]), ","))

\* float() or round() raises on the text, or the rounded value is not positive
BadPrice(t) ==
    LET p == ParseFloat(t)
    IN  \/ ~p.ok
        \/ ~p.fin
        \/ (IF p.neg THEN -1 ELSE 1) * RoundHalfEven(p.num, p.den) <= 0

\* the loop consumes a row
RowStep == pc = "loop" /\ idx < Len(rows) /\ idx' = idx + 1

\* the row was dropped: no record, no id reserved, the run goes on
RowDropped ==
    /\ items' = items
    /\ seen_ids' = seen_ids
    /\ pc' = "loop"
    /\ exitCode' = exitCode
    /\ outFile' = outFile

PositivePrices(recs) ==
    \A i \in 1..Len(recs) : recs[i].price \in Int /\ recs[i].price > 0

\* C6: every record in items and in the output file has an integer price
\* above 0, and a row whose price cell does not parse or rounds to 0 or less
\* is dropped: no record, no id added to seen_ids, and the loop goes on
C6_PositivePrices ==
    /\ [](PositivePrices(items) /\ (pc = "done" => PositivePrices(outFile.data)))
    /\ [][(RowStep /\ BadPrice(NextPriceText)) => RowDropped]_vars

\* a row with a bad price was dropped and a later row gave a record
C6_Witness ==
    /\ pc = "done"
    /\ Len(rows) = 3
    /\ ~NameSkipped(RowName(rows[1], colmap))
    /\ ~ParseFloat(Strip(Remove(PyStr(rows[1][colmap["price"]]), ","))).ok
    /\ ~NameSkipped(RowName(rows[2], colmap))
    /\ RowPrice(rows[2], colmap) = 0
    /\ ParseFloat(Strip(Remove(PyStr(rows[2][colmap["price"]]), ","))).ok
    /\ Len(outFile.data) = 1
    /\ outFile.data[1].name = RowName(rows[3], colmap)

\* the name cell of the row the loop is about to read, as text
NextNameText == PyStr(rows[idx + 1][colmap["name"]])

\* the text is empty once trimmed, or begins with "total" in some casing
SummaryName(t) ==
    \/ \A i \in 1..Len(t) : t[i] \in Whitespace
    \/ \E n \in 0..Len(t) :
          /\ \A i \in 1..n : t[i] \in Whitespace
          /\ Len(t) >= n + Len(total)
          /\ \A i \in 1..Len(total) : ToLower(t[n + i]) = total[i]

GoodNames(recs) ==
    \A i \in 1..Len(recs) :
        LET nm == recs[i].name
        IN  /\ nm # <<>>
            /\ nm[1] \notin Whitespace /\ nm[Len(nm)] \notin Whitespace
            /\ ~SummaryName(nm)

\* C7: every record in items and in the output file has a non-empty, trimmed
\* name that does not begin with "total" in any casing, and a row whose name
\* trims to empty or begins with "total" is dropped: no record, no id reserved
C7_SummaryRowsDropped ==
    /\ [](GoodNames(items) /\ (pc = "done" => GoodNames(outFile.data)))
    /\ [][(RowStep /\ SummaryName(NextNameText)) => RowDropped]_vars

\* a blank-named row and a "Total" row with valid prices were dropped and a
\* later row gave a record
C7_Witness ==
    /\ pc = "done"
    /\ Len(rows) = 3
    /\ RowName(rows[1], colmap) = <<>> /\ RowPrice(rows[1], colmap) > 0
    /\ RowName(rows[2], colmap) = <<"T","o","t","a","l">> /\ RowPrice(rows[2], colmap) > 0
    /\ Len(outFile.data) = 1

----------------------------------------------------------------------------
(* Properties of normalize_sku *)

\* the text of the cell, trimmed; an absent cell has none
SkuText == Strip(PyStr(arg))

\* C8: normalize_sku returns "1" for a cell whose trimmed text is exactly
\* "1", the trimmed text in its own casing when it is "other" in some casing,
\* and the empty string for every other cell, the absent one included; the
\* result is always "", "1" or a casing of "other"
C8_SkuClosedSet ==
    fpc = "end" =>
        /\ ret \in {<<>>, <<"1">>} \cup OtherCasings
        /\ arg = None => ret = <<>>
        /\ (arg # None /\ SkuText = <<"1">>) => ret = <<"1">>
        /\ (arg # None /\ SkuText \in OtherCasings) =>
              /\ ret = SkuText
              /\ \E l, r \in 0..Len(PyStr(arg)) :
                    l + Len(ret) + r = Len(PyStr(arg))
                    /\ SubSeq(PyStr(arg), l + 1, l + Len(ret)) = ret
        /\ (arg # None /\ SkuText # <<"1">> /\ SkuText \notin OtherCasings) =>
              ret = <<>>

\* a padded, mixed-case "other" came back trimmed with its casing kept
C8_Witness ==
    /\ fpc = "end"
    /\ arg = TextCell(<<" ","O","t","H","e","r"," ">>)
    /\ ret = <<"O","t","H","e","r">>

----------------------------------------------------------------------------
(* Properties of repeated runs *)

Suffixes(recs) == {i \in 1..Len(recs) : recs[i].id # BaseOf(recs[i])}

\* C9: every run enters its row loop with no record and no assigned id; a
\* successful run leaves in the output file exactly the records of this run,
\* nothing of what the file held before; and a successful run on the input of
\* an earlier successful run leaves the same file content
C9_RunsIndependent ==
    /\ (pc = "loop" /\ idx = 0) => (items = <<>> /\ seen_ids = {})
    /\ pc = "done" =>
          /\ outFile = [exists |-> TRUE, data |-> items]
          /\ seen_ids = Ids(outFile.data)
          /\ prevOut.exists => outFile = prevOut

\* the second successful run over an input with colliding names has ended
C9_Witness ==
    /\ pc = "done"
    /\ runs = 2
    /\ prevOut.exists
    /\ startOut = prevOut
    /\ Len(outFile.data) >= 2
    /\ Suffixes(outFile.data) # {}

----------------------------------------------------------------------------
(* Properties of slugify *)

\* the length of the longest prefix of s made of characters of C
RECURSIVE PrefixLen(_, _)
PrefixLen(s, C) ==
    IF s # <<>> /\ Head(s) \in C THEN 1 + PrefixLen(Tail(s), C) ELSE 0

\* the maximal runs of [a-z0-9] in s, in order
RECURSIVE AlnumRuns(_)
AlnumRuns(s) ==
    IF s = <<>> THEN <<>>
    ELSE IF Head(s) \notin Alnum THEN AlnumRuns(Tail(s))
    ELSE <<SubSeq(s, 1, PrefixLen(s, Alnum))>>
         \o AlnumRuns(SubSeq(s, PrefixLen(s, Alnum) + 1, Len(s)))

\* the runs joined by single hyphens
RECURSIVE JoinHyphen(_)
JoinHyphen(rs) ==
    IF Len(rs) = 1 THEN rs[1]
    ELSE rs[1] \o <<"-">> \o JoinHyphen(Tail(rs))

WellFormedSlug(s) ==
    /\ s # <<>>
    /\ \A i \in 1..Len(s) : s[i] \in Alnum \cup {"-"}
    /\ s[1] # "-" /\ s[Len(s)] # "-"
    /\ \A i \in 1..(Len(s) - 1) : ~(s[i] = "-" /\ s[i + 1] = "-")

\* C10: slugify returns the maximal [a-z0-9] runs of the lowercased name
\* joined by single hyphens, a non-empty string with no leading, trailing or
\* doubled hyphen; "item" when the lowercased name has no such run;
\* "coca-cola-500ml" for "Coca-Cola 500ml" and "item" for "???"; and the slug
\* of a slug is that slug
C10_SlugShape ==
    fpc \in {"again", "end"} =>
        /\ WellFormedSlug(ret)
        /\ AlnumRuns(Lower(arg)) = <<>> => ret = item
        /\ AlnumRuns(Lower(arg)) # <<>> => ret = JoinHyphen(AlnumRuns(Lower(arg)))
        /\ arg = CocaCola => ret = <<"c","o","c","a","-","c","o","l","a","-","5","0","0","m","l">>
        /\ arg = <<"?","?","?">> => ret = <<"i","t","e","m">>
        /\ fpc = "end" => ret2 = ret

\* slugify has been applied to "Coca-Cola 500ml" and to its result
C10_Witness ==
    /\ fpc = "end"
    /\ arg = CocaCola
    /\ ret = <<"c","o","c","a","-","c","o","l","a","-","5","0","0","m","l">>
    /\ ret2 = ret

====
